---- MODULE Spec2Model ----
(***************************************************************************)
(* A model of pkrs.py: the weight-based genetic risk score classes         *)
(* RiskScore, PGSCatalog, MultiRiskScore, oram2016 and sharp2019.          *)
(*                                                                         *)
(* Python values are modelled as follows.                                  *)
(*   - a dict-like input row is a TLA+ function whose DOMAIN holds the     *)
(*     columns that are present (risk.get(k, d) is Get(risk, k, d));       *)
(*   - an insertion-ordered dict is a sequence of [k, v] items;            *)
(*   - pksnp.Allele / pksnp.GenoType objects are represented by their      *)
(*     identity (the value __eq__/__hash__ compare), an id string;         *)
(*   - weights are integers in thousandths, the real quotient x / N is an  *)
(*     exact fraction <<numerator, denominator>> in lowest terms;          *)
(*   - a raised exception is the value Raise(name).                        *)
(***************************************************************************)
EXTENDS Integers, Sequences, FiniteSets, TLC

VARIABLES
    model,  \* the constructed score object (self), or NoObj
    call,   \* the last call made: its arguments and its outcome
    ncalc,  \* the number of calc calls made on the object
    defaults \* the list object that is the default of PGSCatalog.__init__'s
             \* parameter risks, created once when the class is defined

vars == <<model, call, ncalc, defaults>>

----------------------------------------------------------------------------
(* Bounds of the model.                                                    *)

\* rows in the single-locus and the multi-locus weights file together
MaxRows == 3
\* loci per multi-locus row (GENOTYPE_1 .. GENOTYPE_MaxChain)
MaxChain == 2
\* genotypes of one subject
MaxGenos == 2
\* calc calls on the constructed object
MaxCalcs == 2
\* lines of a PGS Catalog scoring file
MaxLines == 2
\* PGSCatalog objects constructed one after the other in one process
MaxObjects == 2

----------------------------------------------------------------------------
(* Generic helpers: sequences, ordered dicts, exact fractions.             *)

SeqsUpTo(S, n) == UNION {[1..k -> S] : k \in 0..n}

Get(d, k, default) == IF k \in DOMAIN d THEN d[k] ELSE default

EmptyDict == [kind |-> "dict", items |-> <<>>]
Leaf(v) == [kind |-> "float", val |-> v]
Raise(exc) == [kind |-> "raise", exc |-> exc]
IsDict(n) == n.kind = "dict"
IsRaise(n) == n.kind = "raise"

\* the position of key k among the items, 0 when absent
IndexOf(items, k) ==
    IF \E i \in 1..Len(items) : items[i].k = k
    THEN CHOOSE i \in 1..Len(items) : items[i].k = k
    ELSE 0

HasKey(items, k) == IndexOf(items, k) # 0

\* d.get(k, default) on the items of an ordered dict
ItemsGet(items, k, default) ==
    IF HasKey(items, k) THEN items[IndexOf(items, k)].v ELSE default

\* d[k] = v on the items of an ordered dict: an existing key keeps its place
ItemsSet(items, k, v) ==
    IF HasKey(items, k)
    THEN [items EXCEPT ![IndexOf(items, k)] = [k |-> k, v |-> v]]
    ELSE Append(items, [k |-> k, v |-> v])

Abs(x) == IF x < 0 THEN -x ELSE x

RECURSIVE Gcd(_, _)
Gcd(a, b) == IF b = 0 THEN a ELSE Gcd(b, a % b)

\* the real number n / d (d > 0) in lowest terms
Frac(n, d) == LET g == Gcd(Abs(n), d) IN <<n \div g, d \div g>>

FracAdd(x, y) == Frac(x[1] * y[2] + y[1] * x[2], x[2] * y[2])

----------------------------------------------------------------------------
(* The inputs: weights rows, multi-locus weights rows, subjects.           *)

\* identities of the weighted alleles / genotypes (CHROM, POS and the
\* allele symbol or genotype pair taken together)
AlleleIds == {"A1", "A2"}
GenoIds == {"G1", "G2"}

\* rows of a single-locus weights file: ALLELE stands for the resolved
\* CHROM/POS/ALLELE identity, BETA and ODDSRATIO are optional columns
WeightRows ==
    { [ALLELE |-> "A1", BETA |-> 500],
      [ALLELE |-> "A1", ODDSRATIO |-> 2],
      [ALLELE |-> "A2", BETA |-> -200, ODDSRATIO |-> 2],
      [ALLELE |-> "A2"] }

\* the weight columns of a multi-locus row: a weight, or none that counts
NoColumns == <<>>
MultiWeights == { [BETA |-> 1000], [ODDSRATIO |-> 2], NoColumns }
\* weight columns that resolve to 0 although present
ZeroWeights == { [BETA |-> 0], [ODDSRATIO |-> 1] }

\* the key columns of a multi-locus row: GENOTYPE[i] is column GENOTYPE_i
\* (with CHROM_i, POS_i, ID_i), ALLELE[i] is column ALLELE_i
GenoChains == SeqsUpTo(GenoIds, MaxChain) \ {<<>>}
AlleleChains == SeqsUpTo(AlleleIds, MaxChain) \ {<<>>}

\* a row is a genotype row, an allele row or a row without any key column;
\* the present-but-zero weights are put on the one-locus rows
GenoRows ==
    { w @@ [GENOTYPE |-> c, ALLELE |-> <<>>] : w \in MultiWeights, c \in GenoChains }
    \cup { w @@ [GENOTYPE |-> c, ALLELE |-> <<>>] :
              w \in ZeroWeights, c \in { d \in GenoChains : Len(d) = 1 } }
AlleleRows ==
    { w @@ [GENOTYPE |-> <<>>, ALLELE |-> c] : w \in MultiWeights, c \in AlleleChains }
    \cup { w @@ [GENOTYPE |-> <<>>, ALLELE |-> c] :
              w \in ZeroWeights, c \in { d \in AlleleChains : Len(d) = 1 } }
KeylessRows == { [BETA |-> 1000, GENOTYPE |-> <<>>, ALLELE |-> <<>>] }

\* the -n option: absent (None) or a number
NArgs == { <<>>, <<0>>, <<3>> }

\* the genotype objects a subject may carry: identity and alleles with dosage
GenoTypes ==
    { [id |-> "G1", alleles |-> << [id |-> "A1", dosage |-> 1] >>],
      [id |-> "G2", alleles |-> << [id |-> "A1", dosage |-> 2],
                                   [id |-> "A2", dosage |-> 1] >>] }

\* gtdict.values(), in the dict's order
Subjects == SeqsUpTo(GenoTypes, MaxGenos)

Classes == {"RiskScore", "MultiRiskScore", "oram2016", "sharp2019"}
MultiClasses == Classes \ {"RiskScore"}

----------------------------------------------------------------------------
(* RiskScore: construction.                                                *)

\* math.log(float(x)) in thousandths, on the odds ratios of the inputs
Ln(x) == CASE x = 1 -> 0 [] x = 2 -> 693 [] x = 4 -> 1386

\* risk.get("BETA", math.log(float(risk.get("ODDSRATIO", 1))))
ResolveBeta(risk) == Get(risk, "BETA", Ln(Get(risk, "ODDSRATIO", 1)))

\* the list of pksnp.Allele objects, one per row, in file order
ReadRisk(riskiter) ==
    [i \in 1..Len(riskiter) |->
        [id |-> riskiter[i].ALLELE, BETA |-> ResolveBeta(riskiter[i])]]

\* BetaDict keeping the first weight of an identity instead of the last
RECURSIVE BetaDictFirstWins(_, _)
BetaDictFirstWins(risks, n) ==
    IF n = 0 THEN <<>>
    ELSE LET d == BetaDictFirstWins(risks, n - 1)
         IN  IF HasKey(d, risks[n].id) THEN d
             ELSE ItemsSet(d, risks[n].id, Get(risks[n], "BETA", 0))

\* the loop self.beta[risk] = float(risk.get("BETA", 0)) over the first n risks
RECURSIVE BetaDict(_, _)
BetaDict(risks, n) ==
    IF n = 0 THEN <<>>
    ELSE ItemsSet(BetaDict(risks, n - 1), risks[n].id, Get(risks[n], "BETA", 0))

\* Denominator ignoring the override
DenominatorCountOnly(risks, N) == Len(risks)

\* len(self.risks) if N is None else float(N)
Denominator(risks, N) == IF N = <<>> THEN Len(risks) ELSE N[1]

RiskScore_init(cls, riskiter, N) ==
    LET risks == ReadRisk(riskiter)
        n == Denominator(risks, N)
    IN  IF ~(n > 0) THEN Raise("AssertionError")
        ELSE [kind |-> "object", cls |-> cls, risks |-> risks, N |-> n,
              beta |-> BetaDict(risks, Len(risks))]

----------------------------------------------------------------------------
(* MultiRiskScore: construction of the nested dict.                        *)

RECURSIVE nested_read(_, _, _)

\* nested_read asserting only isinstance(nested_dict, dict)
nested_read_AnyWeight(risk, nested_dict, i) ==
    IF i > Len(risk.GENOTYPE)
    THEN LET beta == ResolveBeta(risk)
         IN  IF IsDict(nested_dict) THEN Leaf(beta)
             ELSE Raise("AssertionError")
    ELSE IF ~IsDict(nested_dict)
    THEN Raise("AttributeError")
    ELSE LET gtype == risk.GENOTYPE[i]
             sub == nested_read(risk, ItemsGet(nested_dict.items, gtype, EmptyDict), i + 1)
         IN  IF IsRaise(sub) THEN sub
             ELSE [nested_dict EXCEPT !.items = ItemsSet(@, gtype, sub)]

\* ReadMultiRisk's nested_read: pksnp.GenoType(...) raises when column
\* GENOTYPE_i is missing, which ends the chain with the row's weight
nested_read(risk, nested_dict, i) ==
    IF i > Len(risk.GENOTYPE)
    THEN LET beta == ResolveBeta(risk)
         IN  IF beta # 0 /\ IsDict(nested_dict) THEN Leaf(beta)
             ELSE Raise("AssertionError")
    ELSE IF ~IsDict(nested_dict)
    THEN Raise("AttributeError")    \* nested_dict.get on a float
    ELSE LET gtype == risk.GENOTYPE[i]
             sub == nested_read(risk, ItemsGet(nested_dict.items, gtype, EmptyDict), i + 1)
         IN  IF IsRaise(sub) THEN sub
             ELSE [nested_dict EXCEPT !.items = ItemsSet(@, gtype, sub)]

\* the loop of MultiRiskScore.ReadMultiRisk over the first n rows
RECURSIVE ReadMultiRiskLoop(_, _)
ReadMultiRiskLoop(risk_iter, n) ==
    IF n = 0 THEN EmptyDict
    ELSE LET nested_dict == ReadMultiRiskLoop(risk_iter, n - 1)
             risk == risk_iter[n]
         IN  IF IsRaise(nested_dict) THEN nested_dict
             ELSE IF Len(risk.GENOTYPE) > 0 THEN nested_read(risk, nested_dict, 1)
             ELSE nested_dict

ReadMultiRisk(risk_iter) == ReadMultiRiskLoop(risk_iter, Len(risk_iter))

\* sharp2019.ReadMultiRisk's nested_read: keyed by pksnp.Allele on ALLELE_i
RECURSIVE sharp2019_nested_read(_, _, _)
sharp2019_nested_read(risk, nested_dict, i) ==
    IF i > Len(risk.ALLELE)
    THEN LET beta == ResolveBeta(risk)
         IN  IF beta # 0 /\ IsDict(nested_dict) THEN Leaf(beta)
             ELSE Raise("AssertionError")
    ELSE IF ~IsDict(nested_dict)
    THEN Raise("AttributeError")
    ELSE LET gtype == risk.ALLELE[i]
             sub == sharp2019_nested_read(risk, ItemsGet(nested_dict.items, gtype, EmptyDict), i + 1)
         IN  IF IsRaise(sub) THEN sub
             ELSE [nested_dict EXCEPT !.items = ItemsSet(@, gtype, sub)]

\* the second loop of sharp2019.ReadMultiRisk, over the first n rows,
\* starting from the nested dict of the genotype rows
RECURSIVE sharp2019_ReadLoop(_, _, _)
sharp2019_ReadLoop(risk_iter, start, n) ==
    IF n = 0 THEN start
    ELSE LET nested_dict == sharp2019_ReadLoop(risk_iter, start, n - 1)
             risk == risk_iter[n]
         IN  IF IsRaise(nested_dict) THEN nested_dict
             ELSE IF Len(risk.ALLELE) > 0 THEN sharp2019_nested_read(risk, nested_dict, 1)
             ELSE nested_dict

sharp2019_ReadMultiRisk(risk_iter) ==
    sharp2019_ReadLoop(risk_iter, ReadMultiRisk(risk_iter), Len(risk_iter))

\* self.ReadMultiRisk, resolved on the object's class
ReadMultiRiskOf(cls, risk_iter) ==
    IF cls = "sharp2019" THEN sharp2019_ReadMultiRisk(risk_iter)
    ELSE ReadMultiRisk(risk_iter)

MultiRiskScore_init(cls, risks, multirisks, N) ==
    LET self == RiskScore_init(cls, risks, N)
        multi == ReadMultiRiskOf(cls, multirisks)
    IN  IF IsRaise(self) THEN self
        ELSE IF IsRaise(multi) THEN multi
        ELSE self @@ [multi |-> multi]

\* oram2016.__init__ with the transform 2 * N + 1
oram2016_init_Misplaced(cls, risks, multirisks, N) ==
    LET self == MultiRiskScore_init(cls, risks, multirisks, N)
    IN  IF IsRaise(self) THEN self
        ELSE [self EXCEPT !.N = 2 * self.N + 1]

oram2016_init(cls, risks, multirisks, N) ==
    LET self == MultiRiskScore_init(cls, risks, multirisks, N)
    IN  IF IsRaise(self) THEN self
        ELSE [self EXCEPT !.N = 2 * (self.N + 1)]

sharp2019_init(cls, risks, multirisks, N) ==
    LET self == MultiRiskScore_init(cls, risks, multirisks, N)
    IN  IF IsRaise(self) THEN self
        ELSE [self EXCEPT !.N = 1]

----------------------------------------------------------------------------
(* Scoring.  A call returns its value together with the objects it was     *)
(* handed, as they are when it returns: [ret, self, gtdict].               *)

\* haplo in subject
InSubject(haplo, subject) == \E j \in 1..Len(subject) : subject[j].id = haplo

\* Exclude dropping only the first genotype equal to haplo (list.remove)
ExcludeFirstOnly(subject, haplo) ==
    LET hits == { j \in 1..Len(subject) : subject[j].id = haplo }
        first == CHOOSE j \in hits : \A m \in hits : j <= m
    IN  IF hits = {} THEN subject
        ELSE [j \in 1..(Len(subject) - 1) |->
                 IF j < first THEN subject[j] ELSE subject[j + 1]]

\* [gt for gt in subject if gt != haplo]
Exclude(subject, haplo) == SelectSeq(subject, LAMBDA gt : gt.id # haplo)

\* MultiRiskScore.nested_lookup, with the recursive calls it makes:
\* [ret |-> the value returned, calls |-> <<[haplo, subject passed down], ...>>]
RECURSIVE nested_lookup_run(_, _)
RECURSIVE nested_lookup_for(_, _, _)
RECURSIVE nested_lookup_for_Default(_, _, _)

\* the loop going on to the later siblings when the matched subtree yields 0
nested_lookup_for_Fallback(nested_dict, subject, i) ==
    IF i > Len(nested_dict.items) THEN [ret |-> 0, calls |-> <<>>]
    ELSE LET haplo == nested_dict.items[i].k
             rest == Exclude(subject, haplo)
             down == nested_lookup_run(nested_dict.items[i].v, rest)
         IN  IF InSubject(haplo, subject) /\ down.ret # 0
             THEN [ret |-> down.ret,
                   calls |-> <<[haplo |-> haplo, from |-> subject, subject |-> rest]>>
                             \o down.calls]
             ELSE nested_lookup_for(nested_dict, subject, i + 1)

\* the loop taking the first child as the default when no child key matches
nested_lookup_for_Default(nested_dict, subject, i) ==
    IF i > Len(nested_dict.items)
    THEN IF Len(nested_dict.items) = 0 THEN [ret |-> 0, calls |-> <<>>]
         ELSE [ret |-> nested_lookup_run(nested_dict.items[1].v, subject).ret,
               calls |-> <<>>]
    ELSE LET haplo == nested_dict.items[i].k
         IN  IF InSubject(haplo, subject)
             THEN LET rest == Exclude(subject, haplo)
                      down == nested_lookup_run(nested_dict.items[i].v, rest)
                  IN  [ret |-> down.ret,
                       calls |-> <<[haplo |-> haplo, from |-> subject, subject |-> rest]>>
                                 \o down.calls]
             ELSE nested_lookup_for_Default(nested_dict, subject, i + 1)

nested_lookup_for(nested_dict, subject, i) ==
    IF i > Len(nested_dict.items) THEN [ret |-> 0, calls |-> <<>>]
    ELSE LET haplo == nested_dict.items[i].k
         IN  IF InSubject(haplo, subject)
             THEN LET rest == Exclude(subject, haplo)
                      down == nested_lookup_run(nested_dict.items[i].v, rest)
                  IN  [ret |-> down.ret,
                       calls |-> <<[haplo |-> haplo, from |-> subject, subject |-> rest]>>
                                 \o down.calls]
             ELSE nested_lookup_for(nested_dict, subject, i + 1)

nested_lookup_run(nested_dict, subject) ==
    IF IsDict(nested_dict) THEN nested_lookup_for(nested_dict, subject, 1)
    ELSE [ret |-> nested_dict.val, calls |-> <<>>]

nested_lookup(nested_dict, subject) == nested_lookup_run(nested_dict, subject).ret

\* the alleles of the subject's genotypes, flattened in order
RECURSIVE Flatten(_, _)
Flatten(gtlist, n) ==
    IF n = 0 THEN <<>> ELSE Flatten(gtlist, n - 1) \o gtlist[n].alleles

\* {allele: allele.dosage for gt in gtlist for allele in gt.getAlleles()}
RECURSIVE DosageDict(_, _)
DosageDict(alleles, n) ==
    IF n = 0 THEN <<>>
    ELSE ItemsSet(DosageDict(alleles, n - 1), alleles[n].id, alleles[n].dosage)

\* the loop wsum += wgt * alleles.get(allele, 0) over the first n items
RECURSIVE WeightedSum(_, _, _)
WeightedSum(beta, alleles, n) ==
    IF n = 0 THEN 0
    ELSE WeightedSum(beta, alleles, n - 1) + beta[n].v * ItemsGet(alleles, beta[n].k, 0)

RiskScore_calc(self, gtdict) ==
    LET flat == Flatten(gtdict, Len(gtdict))
        alleles == DosageDict(flat, Len(flat))
        wsum == WeightedSum(self.beta, alleles, Len(self.beta))
    IN  [ret |-> Frac(wsum, self.N), self |-> self, gtdict |-> gtdict, calls |-> <<>>]

\* MultiRiskScore.calc popping the matched first-level key from self.multi
MultiRiskScore_calc_Consuming(self, gtdict) ==
    LET base == RiskScore_calc(self, gtdict)
        look == nested_lookup_run(base.self.multi, base.gtdict)
        mrs == look.ret
        left == IF look.calls = <<>> THEN base.self.multi.items
                ELSE SelectSeq(base.self.multi.items,
                               LAMBDA it : it.k # look.calls[1].haplo)
    IN  [ret |-> IF mrs # 0 THEN FracAdd(base.ret, Frac(mrs, base.self.N)) ELSE base.ret,
         self |-> [base.self EXCEPT !.multi.items = left],
         gtdict |-> base.gtdict, calls |-> look.calls]

\* MultiRiskScore.calc adding the multi-locus weight undivided
MultiRiskScore_calc_Undivided(self, gtdict) ==
    LET base == RiskScore_calc(self, gtdict)
        look == nested_lookup_run(base.self.multi, base.gtdict)
        mrs == look.ret
    IN  [ret |-> IF mrs # 0 THEN FracAdd(base.ret, Frac(mrs, 1)) ELSE base.ret,
         self |-> base.self, gtdict |-> base.gtdict, calls |-> look.calls]

MultiRiskScore_calc(self, gtdict) ==
    LET base == RiskScore_calc(self, gtdict)
        look == nested_lookup_run(base.self.multi, base.gtdict)
        mrs == look.ret
    IN  [ret |-> IF mrs # 0 THEN FracAdd(base.ret, Frac(mrs, base.self.N)) ELSE base.ret,
         self |-> base.self, gtdict |-> base.gtdict, calls |-> look.calls]

\* haplo in subject_alleles, subject_alleles the flattened gt.getAlleles(True)
InSubjectAlleles(haplo, subject) ==
    LET flat == Flatten(subject, Len(subject))
    IN  \E j \in 1..Len(flat) : flat[j].id = haplo

RECURSIVE sharp2019_nested_lookup(_, _)
RECURSIVE sharp2019_nested_lookup_for(_, _, _)
sharp2019_nested_lookup_for(nested_dict, subject, n) ==
    IF n = 0 THEN <<>>
    ELSE LET haplo == nested_dict.items[n].k
         IN  sharp2019_nested_lookup_for(nested_dict, subject, n - 1)
             \o (IF InSubjectAlleles(haplo, subject)
                 THEN sharp2019_nested_lookup(nested_dict.items[n].v, subject)
                 ELSE <<>>)

sharp2019_nested_lookup(nested_dict, subject) ==
    LET wsum == nested_lookup(nested_dict, subject)
    IN  IF wsum # 0 THEN <<wsum>>
        ELSE IF IsDict(nested_dict)
        THEN sharp2019_nested_lookup_for(nested_dict, subject, Len(nested_dict.items))
        ELSE <<nested_dict.val>>

\* sum(lst) without the slice
RECURSIVE SumAll(_)
SumAll(lst) == IF Len(lst) = 0 THEN 0 ELSE lst[1] + SumAll(Tail(lst))

\* sum(lst[:2])
SumFirstTwo(lst) ==
    IF Len(lst) = 0 THEN 0 ELSE IF Len(lst) = 1 THEN lst[1] ELSE lst[1] + lst[2]

sharp2019_calc(self, gtdict) ==
    LET base == RiskScore_calc(self, gtdict)
        mrs == SumFirstTwo(sharp2019_nested_lookup(base.self.multi, base.gtdict))
    IN  [ret |-> IF mrs # 0 THEN FracAdd(base.ret, Frac(mrs, base.self.N)) ELSE base.ret,
         self |-> base.self, gtdict |-> base.gtdict, calls |-> <<>>]

----------------------------------------------------------------------------
(* The program: one score object is constructed, then scored on subjects.  *)

NoObj == [kind |-> "none"]

\* riskscore.<cls>(risks=..., multirisks=..., N=...)
New(cls, risks, multirisks, N) ==
    CASE cls = "RiskScore" -> RiskScore_init(cls, risks, N)
      [] cls = "MultiRiskScore" -> MultiRiskScore_init(cls, risks, multirisks, N)
      [] cls = "oram2016" -> oram2016_init(cls, risks, multirisks, N)
      [] cls = "sharp2019" -> sharp2019_init(cls, risks, multirisks, N)

\* self.calc(gtdict), resolved on the object's class
CalcOf(self, gtdict) ==
    CASE self.cls \in {"RiskScore", "PGSCatalog"} -> RiskScore_calc(self, gtdict)
      [] self.cls \in {"MultiRiskScore", "oram2016"} -> MultiRiskScore_calc(self, gtdict)
      [] self.cls = "sharp2019" -> sharp2019_calc(self, gtdict)

\* the rows a multi-locus weights file of the class may hold
MultiRows(cls) ==
    CASE cls = "RiskScore" -> {}
      [] cls = "sharp2019" -> GenoRows \cup AlleleRows \cup KeylessRows
      [] OTHER -> GenoRows \cup KeylessRows

\* the command line names the score (the class) and may give -n
Init ==
    /\ model = NoObj
    /\ \E cls \in Classes, N \in NArgs : call = [op |-> "main", cls |-> cls, N |-> N]
    /\ ncalc = 0
    /\ defaults = <<>>

\* the weights files are read and the score object is constructed
Construct ==
    /\ call.op = "main"
    /\ \E risks \in SeqsUpTo(WeightRows, MaxRows) :
       \E multirisks \in SeqsUpTo(MultiRows(call.cls), MaxRows - Len(risks)) :
          LET obj == New(call.cls, risks, multirisks, call.N)
          IN  /\ model' = IF IsRaise(obj) THEN NoObj ELSE obj
              /\ call' = [op |-> "init", cls |-> call.cls, risks |-> risks,
                          multirisks |-> multirisks, N |-> call.N,
                          raised |-> IF IsRaise(obj) THEN obj.exc ELSE "no"]
    /\ UNCHANGED <<ncalc, defaults>>

Calc ==
    /\ model.kind = "object"
    /\ ncalc < MaxCalcs
    /\ ncalc' = ncalc + 1
    /\ \E gtdict \in Subjects :
          LET r == CalcOf(model, gtdict)
          IN  /\ model' = r.self
              /\ call' = [op |-> "calc", arg |-> gtdict, gtdict |-> r.gtdict,
                          ret |-> r.ret, calls |-> r.calls,
                          again |-> (call.op = "calc" /\ call.arg = gtdict)]
    /\ UNCHANGED defaults

Next == Construct \/ Calc

Spec == Init /\ [][Next]_vars

----------------------------------------------------------------------------
(* PGSCatalog: scores read from a PGS Catalog scoring file.                *)

\* the lines of a scoring file, with the columns PGSCatalog reads
CatalogLines ==
    { [rsID |-> "rs1", chr_name |-> "1", chr_position |-> 100,
       effect_allele |-> "A1", effect_weight |-> 500],
      [rsID |-> "rs2", chr_name |-> "1", chr_position |-> 200,
       effect_allele |-> "A2", effect_weight |-> -200] }

\* the pgs argument: the lines of one scoring file
CatalogTables == SeqsUpTo(CatalogLines, MaxLines)

\* the risks keyword: not given, an empty list or a list of one weights row
RisksArgs == { <<>>, << <<>> >>, << <<[ALLELE |-> "A1", ODDSRATIO |-> 2]>> >> }

\* the dict built from one line; line.get(column) is None (here <<>>) for a
\* missing column
Renamed(line) ==
    [RSID   |-> Get(line, "rsID", <<>>),
     CHROM  |-> Get(line, "chr_name", <<>>),
     POS    |-> Get(line, "chr_position", <<>>),
     ALLELE |-> Get(line, "effect_allele", <<>>),
     BETA   |-> Get(line, "effect_weight", <<>>)]

\* the loop risks.append(risk) over the first n lines of pgs
RECURSIVE AppendRenamed(_, _, _)
AppendRenamed(risks, pgs, n) ==
    IF n = 0 THEN risks
    ELSE Append(AppendRenamed(risks, pgs, n - 1), Renamed(pgs[n]))

\* PGSCatalog.__init__(pgs, risks=..., N=...): arg is the risks keyword as
\* given, default the list object bound to the parameter's default; returns
\* the object (or the exception) and the default list as the call leaves it
PGSCatalog_init(pgs, arg, default, N) ==
    LET risks == IF arg = <<>> THEN default ELSE arg[1]
        filled == IF Len(risks) = 0 THEN AppendRenamed(risks, pgs, Len(pgs))
                  ELSE risks
    IN  [ret |-> RiskScore_init("PGSCatalog", filled, N),
         defaults |-> IF arg = <<>> THEN filled ELSE default]

\* a process that constructs PGSCatalog objects: nothing constructed yet
PGSInit ==
    /\ model = NoObj
    /\ \E N \in NArgs : call = [op |-> "main", cls |-> "PGSCatalog", N |-> N, nth |-> 0]
    /\ ncalc = 0
    /\ defaults = <<>>

\* riskscore.PGSCatalog(pgs=pgs), possibly with risks=..., once more
PGSConstruct ==
    /\ call.op \in {"main", "init"}
    /\ call.nth < MaxObjects
    /\ \E pgs \in CatalogTables, arg \in RisksArgs :
          LET r == PGSCatalog_init(pgs, arg, defaults, call.N)
          IN  /\ model' = IF IsRaise(r.ret) THEN NoObj ELSE r.ret
              /\ defaults' = r.defaults
              /\ call' = [op |-> "init", cls |-> "PGSCatalog", pgs |-> pgs,
                          given |-> arg, N |-> call.N, nth |-> call.nth + 1,
                          before |-> defaults,
                          raised |-> IF IsRaise(r.ret) THEN r.ret.exc ELSE "no"]
    /\ UNCHANGED ncalc

PGSNext == PGSConstruct \/ Calc

PGSSpec == PGSInit /\ [][PGSNext]_vars

----------------------------------------------------------------------------
(* What the documentation states, written independently of the code.       *)

MaxOf(S) == CHOOSE x \in S : \A y \in S : y <= x

\* the identities in the beta lookup of an object
BetaIds(self) == { self.beta[i].k : i \in 1..Len(self.beta) }

\* the value the beta lookup holds for an identity
BetaOf(self, id) == self.beta[CHOOSE i \in 1..Len(self.beta) : self.beta[i].k = id].v

\* the effect size of the last weight record, in file order, with the identity
LastBeta(self, id) ==
    self.risks[MaxOf({ i \in 1..Len(self.risks) : self.risks[i].id = id })].BETA

\* the subject's alleles, genotype by genotype: <<genotype index, allele index>>
AllelePlaces(gtdict) ==
    { p \in (1..Len(gtdict)) \X (1..MaxGenos + 1) : p[2] <= Len(gtdict[p[1]].alleles) }

PlacesOf(gtdict, id) ==
    { p \in AllelePlaces(gtdict) : gtdict[p[1]].alleles[p[2]].id = id }

\* p is the place seen last among the places P
LastPlace(P) ==
    CHOOSE p \in P : \A q \in P : q[1] < p[1] \/ (q[1] = p[1] /\ q[2] <= p[2])

\* the subject's dosage for an identity: 0 without an allele of that identity,
\* the last one seen otherwise
Dosage(gtdict, id) ==
    IF PlacesOf(gtdict, id) = {} THEN 0
    ELSE LET p == LastPlace(PlacesOf(gtdict, id))
         IN  gtdict[p[1]].alleles[p[2]].dosage

\* sum(beta[id] * dosage(id)) over the identities S
RECURSIVE LinearSumOver(_, _, _)
LinearSumOver(self, gtdict, S) ==
    IF S = {} THEN 0
    ELSE LET id == CHOOSE y \in S : TRUE
         IN  LastBeta(self, id) * Dosage(gtdict, id)
             + LinearSumOver(self, gtdict, S \ {id})

LinearSum(self, gtdict) == LinearSumOver(self, gtdict, BetaIds(self))

\* the same object with every beta doubled
Doubled(self) ==
    [self EXCEPT !.beta = [i \in 1..Len(self.beta) |->
                              [k |-> self.beta[i].k, v |-> 2 * self.beta[i].v]],
                 !.risks = [i \in 1..Len(self.risks) |->
                              [id |-> self.risks[i].id, BETA |-> 2 * self.risks[i].BETA]]]

\* the same object without the identity id
Without(self, id) ==
    [self EXCEPT !.beta = SelectSeq(self.beta, LAMBDA it : it.k # id),
                 !.risks = SelectSeq(self.risks, LAMBDA r : r.id # id)]

AfterCalc == call.op = "calc" /\ model.kind = "object"
AfterInit == call.op = "init"

\* C1: RiskScore.calc returns sum(beta[id] * dosage(id)) / N over the distinct
\* identities id of the beta lookup, beta[id] being the effect size of the last
\* weight record with that identity and dosage(id) being 0 for an identity the
\* subject has no allele of; doubling every beta doubles the returned score.
C1_LinearScore ==
    AfterCalc =>
        LET linear == RiskScore_calc(model, call.arg).ret
            twice == RiskScore_calc(Doubled(model), call.arg).ret
        IN  /\ \A id \in BetaIds(model) : BetaOf(model, id) = LastBeta(model, id)
            /\ BetaIds(model) = { model.risks[i].id : i \in 1..Len(model.risks) }
            /\ linear = Frac(LinearSum(model, call.arg), model.N)
            /\ model.cls = "RiskScore" => call.ret = linear
            /\ twice = Frac(2 * linear[1], linear[2])
            /\ \A id \in BetaIds(model) :
                  PlacesOf(call.arg, id) = {} =>
                      RiskScore_calc(Without(model, id), call.arg).ret = linear

\* a RiskScore over three weight records, two of them with the same identity
\* and different effect sizes, scored on a subject that has that allele and
\* lacks the other weighted allele
C1_Witness ==
    /\ AfterCalc
    /\ model.cls = "RiskScore"
    /\ Len(model.risks) = 3 /\ Len(model.beta) = 2
    /\ model.risks[1].id = model.risks[2].id
    /\ model.risks[1].BETA # model.risks[2].BETA
    /\ Dosage(call.arg, model.risks[1].id) > 0
    /\ PlacesOf(call.arg, model.risks[3].id) = {}
    /\ model.risks[3].BETA # 0
    /\ call.ret[1] # 0

\* the denominator the constructor's arguments ask for
AskedN == IF call.N = <<>> THEN Len(call.risks) ELSE call.N[1]

\* C2: a constructed base linear model has N equal to the override when one is
\* given and to the number of weight records read otherwise, N > 0 holds of
\* every constructed object, and construction is rejected, leaving no object,
\* whenever that value is <= 0.
C2_Denominator ==
    /\ model.kind = "object" => model.N > 0
    /\ AfterInit =>
          /\ AskedN <= 0 => (model = NoObj /\ call.raised = "AssertionError")
          /\ call.raised = "no" =>
                /\ model.kind = "object"
                /\ Len(model.risks) = Len(call.risks)
                /\ call.cls \in {"RiskScore", "MultiRiskScore"} => model.N = AskedN

\* a RiskScore constructed from two records of one identity with the override 3
C2_Witness ==
    /\ AfterInit
    /\ call.cls = "RiskScore" /\ call.raised = "no"
    /\ call.N = <<3>>
    /\ Len(call.risks) = 2 /\ call.risks[1].ALLELE = call.risks[2].ALLELE
    /\ model.N = 3

\* the first index of a set of indices
MinOf(S) == CHOOSE x \in S : \A y \in S : x <= y

\* Match(node, candidate keys) of the documentation, on a set of keys
RECURSIVE Match(_, _)
Match(node, keys) ==
    IF ~IsDict(node) THEN node.val
    ELSE LET hits == { i \in 1..Len(node.items) : node.items[i].k \in keys }
         IN  IF hits = {} THEN 0
             ELSE LET i == MinOf(hits)
                  IN  Match(node.items[i].v, keys \ {node.items[i].k})

\* the subject's genotype identities
CandidateKeys(gtdict) == { gtdict[j].id : j \in 1..Len(gtdict) }

LinearScore(self, gtdict) == Frac(LinearSum(self, gtdict), self.N)

GenericClasses == {"MultiRiskScore", "oram2016"}

\* C3: MultiRiskScore.calc returns LinearScore(subject) + Match(tree root,
\* candidate keys) / N, the candidate keys being all of the subject's genotype
\* identities and N the object's effective denominator in both terms.
C3_MultiScore ==
    (AfterCalc /\ model.cls \in GenericClasses) =>
        call.ret = FracAdd(LinearScore(model, call.arg),
                           Frac(Match(model.multi, CandidateKeys(call.arg)), model.N))

\* an oram2016 object scored on a subject with a non-zero linear sum and a
\* matched multi-locus chain
C3_Witness ==
    /\ AfterCalc
    /\ model.cls = "oram2016"
    /\ LinearSum(model, call.arg) # 0
    /\ Match(model.multi, CandidateKeys(call.arg)) # 0
    /\ Len(call.calls) = 2

\* C4: an oram2016 object has N = 2 * (N_original + 1), N_original being the
\* override if given and the number of weight records otherwise, and that N is
\* the one its calc divides by.
C4_OramDenominator ==
    /\ (AfterInit /\ call.cls = "oram2016" /\ call.raised = "no") =>
          model.N = 2 * (AskedN + 1)
    /\ (AfterCalc /\ model.cls = "oram2016") =>
          /\ model.N \in { 2 * (Len(model.risks) + 1) }
                         \cup { 2 * (n[1] + 1) : n \in NArgs \ {<<>>} }
          /\ call.ret = FracAdd(Frac(LinearSum(model, call.arg), model.N),
                                Frac(Match(model.multi, CandidateKeys(call.arg)), model.N))

\* an oram2016 object over two weight records and no override: N = 6
C4_Witness ==
    /\ AfterInit
    /\ call.cls = "oram2016" /\ call.raised = "no"
    /\ call.N = <<>> /\ Len(call.risks) = 2
    /\ model.N = 6

\* the node reached by following the keys matched by the first j recursive calls
RECURSIVE NodeAt(_, _, _)
NodeAt(root, calls, j) ==
    IF j = 0 THEN root
    ELSE ItemsGet(NodeAt(root, calls, j - 1).items, calls[j].haplo, EmptyDict)

\* the candidates handed to the node at depth j
CandidatesAt(gtdict, calls, j) == IF j = 0 THEN gtdict ELSE calls[j].subject

\* the keys of a mapping node
KeysOf(node) == { node.items[i].k : i \in 1..Len(node.items) }

\* the first key of a mapping node, in insertion order, among the keys
FirstKey(node, keys) ==
    node.items[MinOf({ i \in 1..Len(node.items) : node.items[i].k \in keys })].k

\* the multi-locus weight a calc call of a generic class found
FoundWeight ==
    LET end == NodeAt(model.multi, call.calls, Len(call.calls))
    IN  IF IsDict(end) THEN 0 ELSE end.val

\* C5: at every mapping node the lookup descends into the first child, in
\* insertion order, whose key is among the candidates, and what that subtree
\* yields is the result, 0 included: later siblings are never tried.
C5_Priority ==
    (AfterCalc /\ model.cls \in GenericClasses) =>
        /\ \A j \in 1..Len(call.calls) :
              LET node == NodeAt(model.multi, call.calls, j - 1)
                  cand == CandidatesAt(call.arg, call.calls, j - 1)
              IN  /\ IsDict(node)
                  /\ call.calls[j].from = cand
                  /\ KeysOf(node) \cap CandidateKeys(cand) # {}
                  /\ call.calls[j].haplo = FirstKey(node, CandidateKeys(cand))
        /\ call.ret = FracAdd(LinearScore(model, call.arg), Frac(FoundWeight, model.N))

\* siblings [K1, K2] at the root, both among the subject's genotypes: K1's
\* subtree is followed and yields 0 while K2's subtree would have matched
C5_Witness ==
    /\ AfterCalc
    /\ model.cls = "MultiRiskScore"
    /\ Len(model.multi.items) = 2
    /\ KeysOf(model.multi) \subseteq CandidateKeys(call.arg)
    /\ Len(call.calls) = 1
    /\ call.calls[1].haplo = model.multi.items[1].k
    /\ FoundWeight = 0
    /\ call.ret = LinearScore(model, call.arg)
    /\ Match(model.multi.items[2].v, CandidateKeys(call.arg)) # 0

\* how many of the genotypes have the identity
CountOf(subject, id) == Cardinality({ j \in 1..Len(subject) : subject[j].id = id })

\* C6: the candidates passed into the subtree of a matched key K hold no
\* genotype equal to K and every other candidate as it was, so that no key is
\* matched at two positions of a chain.
C6_Exclusion ==
    (AfterCalc /\ model.cls \in GenericClasses) =>
        /\ \A j \in 1..Len(call.calls) :
              LET c == call.calls[j]
              IN  /\ c.haplo \notin CandidateKeys(c.subject)
                  /\ \A id \in GenoIds \ {c.haplo} :
                        CountOf(c.subject, id) = CountOf(c.from, id)
                  /\ Len(c.subject) = Len(c.from) - CountOf(c.from, c.haplo)
        /\ \A i, j \in 1..Len(call.calls) :
              i # j => call.calls[i].haplo # call.calls[j].haplo

\* the chain K1 -> K1 -> beta and a subject with two genotypes equal to K1:
\* K1 is matched once and the chain is not
C6_Witness ==
    /\ AfterCalc
    /\ model.cls = "MultiRiskScore"
    /\ Len(model.multi.items) = 1
    /\ IsDict(model.multi.items[1].v)
    /\ KeysOf(model.multi.items[1].v) = {model.multi.items[1].k}
    /\ CountOf(call.arg, model.multi.items[1].k) = 2
    /\ Len(call.calls) = 1
    /\ call.calls[1].subject = <<>>
    /\ call.ret = LinearScore(model, call.arg)

\* the node at which Match stops: a leaf, or a mapping without a candidate key
RECURSIVE StopNode(_, _)
StopNode(node, keys) ==
    IF ~IsDict(node) \/ KeysOf(node) \cap keys = {} THEN node
    ELSE LET k == FirstKey(node, keys)
         IN  StopNode(ItemsGet(node.items, k, EmptyDict), keys \ {k})

\* C7: when the lookup reaches a mapping node, the root included, none of
\* whose keys is among the remaining candidates, the multi-locus contribution
\* is 0 and calc returns exactly the linear score.
C7_NoMatch ==
    (AfterCalc /\ model.cls \in GenericClasses) =>
        (IsDict(StopNode(model.multi, CandidateKeys(call.arg))) =>
            call.ret = LinearScore(model, call.arg))

\* the tree G1 -> G2 -> beta and a subject with G1 only, the linear sum not 0
C7_Witness ==
    /\ AfterCalc
    /\ model.cls = "MultiRiskScore"
    /\ Len(model.multi.items) = 1
    /\ IsDict(model.multi.items[1].v)
    /\ CandidateKeys(call.arg) = {model.multi.items[1].k}
    /\ KeysOf(model.multi.items[1].v) \cap CandidateKeys(call.arg) = {}
    /\ LinearSum(model, call.arg) # 0
    /\ call.ret = LinearScore(model, call.arg)

\* the identities of the subject's alleles
SubjectAlleleIds(gtdict) ==
    { gtdict[p[1]].alleles[p[2]].id : p \in AllelePlaces(gtdict) }

\* the list the Method B lookup collects at a node: the single-chain genotype
\* match when it is not 0, else what is collected under the children whose
\* allele key the subject has, in sibling order
RECURSIVE Collected(_, _)
RECURSIVE CollectedUnder(_, _, _)
CollectedUnder(node, gtdict, n) ==
    IF n = 0 THEN <<>>
    ELSE CollectedUnder(node, gtdict, n - 1)
         \o (IF node.items[n].k \in SubjectAlleleIds(gtdict)
             THEN Collected(node.items[n].v, gtdict)
             ELSE <<>>)

Collected(node, gtdict) ==
    LET v == Match(node, CandidateKeys(gtdict))
    IN  IF v # 0 THEN <<v>>
        ELSE IF IsDict(node) THEN CollectedUnder(node, gtdict, Len(node.items))
        ELSE <<>>

\* the sum of at most the first two values of a list
AtMostTwo(lst) ==
    LET n == IF Len(lst) < 2 THEN Len(lst) ELSE 2
    IN  SumAll(SubSeq(lst, 1, n))

\* C8: a sharp2019 object has N = 1 whatever the weight entries and the
\* override, and its calc returns the linear weighted sum plus the sum of at
\* most the first two collected values.
C8_Sharp ==
    /\ (model.kind = "object" /\ model.cls = "sharp2019") => model.N = 1
    /\ (AfterCalc /\ model.cls = "sharp2019") =>
          call.ret = FracAdd(Frac(LinearSum(model, call.arg), 1),
                             Frac(AtMostTwo(Collected(model.multi, call.arg)), 1))

\* a sharp2019 object constructed with the override 3 whose lookup collects
\* three values under allele keys, no genotype chain matching
C8_Witness ==
    /\ AfterCalc
    /\ model.cls = "sharp2019"
    /\ Match(model.multi, CandidateKeys(call.arg)) = 0
    /\ Len(Collected(model.multi, call.arg)) = 3
    /\ SumAll(Collected(model.multi, call.arg)) # AtMostTwo(Collected(model.multi, call.arg))
    /\ call.ret = Frac(AtMostTwo(Collected(model.multi, call.arg)), 1)

\* C9: a calc call leaves the object (risk entries, beta lookup, N, tree) and
\* the subject data as they were, and a calc call repeated on the same subject
\* returns the same value.
C9_CalcPure ==
    [][ call'.op = "calc" =>
            /\ model' = model
            /\ call'.gtdict = call'.arg
            /\ (call.op = "calc" /\ call.arg = call'.arg) => call'.ret = call.ret ]_vars

\* a second calc call on the same subject, on an object whose tree matched it
C9_Witness ==
    /\ AfterCalc
    /\ ncalc = 2
    /\ call.again
    /\ model.cls \in GenericClasses
    /\ Len(call.calls) > 0
    /\ FoundWeight # 0

\* the effect size the documentation resolves for a record
DocBeta(risk) ==
    IF "BETA" \in DOMAIN risk THEN risk.BETA
    ELSE IF "ODDSRATIO" \in DOMAIN risk THEN Ln(risk.ODDSRATIO)
    ELSE 0

\* the multi-locus rows of the call that carry a first key the class reads
KeyedRows ==
    { i \in 1..Len(call.multirisks) :
        \/ Len(call.multirisks[i].GENOTYPE) > 0
        \/ (call.cls = "sharp2019" /\ Len(call.multirisks[i].ALLELE) > 0) }

\* the leaves of a tree
RECURSIVE LeavesOf(_)
LeavesOf(node) ==
    IF ~IsDict(node) THEN {node.val}
    ELSE UNION { LeavesOf(node.items[i].v) : i \in 1..Len(node.items) }

ChainOf(i) == call.multirisks[i].GENOTYPE

\* the multi-locus rows of the call with a first key (GENOTYPE_1)
GenoKeyed == { i \in 1..Len(call.multirisks) : Len(ChainOf(i)) > 0 }

IsPrefix(p, c) == Len(p) <= Len(c) /\ SubSeq(c, 1, Len(p)) = p

\* what a key chain leads to in a tree, from its i-th key on
RECURSIVE ChainEnd(_, _, _)
ChainEnd(node, chain, i) ==
    IF i > Len(chain) THEN node
    ELSE IF ~IsDict(node) \/ ~HasKey(node.items, chain[i]) THEN [kind |-> "missing"]
    ELSE ChainEnd(ItemsGet(node.items, chain[i], EmptyDict), chain, i + 1)

\* the first row whose chain starts with the keys p
FirstRowWith(p) == MinOf({ i \in GenoKeyed : IsPrefix(p, ChainOf(i)) })

\* the proper prefixes of the chains of the rows
Prefixes ==
    { SubSeq(ChainOf(i), 1, n) : i \in GenoKeyed, n \in 0..(MaxChain - 1) }

\* the sibling keys of the mapping at prefix p stand in the order in which
\* the rows first name them
SiblingsInRecordOrder(root, p) ==
    LET node == ChainEnd(root, p, 1)
    IN  (node.kind = "dict") =>
           \A a \in 1..Len(node.items), b \in 1..Len(node.items) :
              LET ka == Append(p, node.items[a].k)
                  kb == Append(p, node.items[b].k)
              IN  /\ \E i \in GenoKeyed : IsPrefix(ka, ChainOf(i))
                  /\ (a < b) => FirstRowWith(ka) < FirstRowWith(kb)

\* every keyed row's chain is in the tree and ends in the row's beta, and
\* sibling keys stand in record order
AllChainsKept ==
    /\ call.raised = "no"
    /\ \A i \in GenoKeyed :
          ChainEnd(model.multi, ChainOf(i), 1) = Leaf(DocBeta(call.multirisks[i]))
    /\ \A p \in Prefixes : SiblingsInRecordOrder(model.multi, p)

\* a construction of a generic multi-locus score that fails neither on the
\* denominator nor on a zero weight, from rows with pairwise different chains
DistinctChainsRead ==
    /\ AfterInit
    /\ call.cls \in GenericClasses
    /\ AskedN > 0
    /\ \A i \in GenoKeyed : DocBeta(call.multirisks[i]) # 0
    /\ \A i \in GenoKeyed, j \in GenoKeyed : i # j => ChainOf(i) # ChainOf(j)

\* C11 as stated: after any sequence of multi-locus records with different key
\* sequences, every record with a first key has its full chain in the tree
\* ending in a leaf with its beta, siblings stand in the order of their first
\* occurrence, and no later record removes or replaces an earlier chain, also
\* when one chain is a strict prefix of the other.
C11_OnlyAdds == DistinctChainsRead => AllChainsKept

\* C11, the part the code keeps: when no chain is a prefix of another row's
\* chain, every chain is in the tree with its beta and siblings stand in
\* record order; rows without a first key change nothing.
C11_UnrelatedChainsKept ==
    (/\ DistinctChainsRead
     /\ \A i \in GenoKeyed, j \in GenoKeyed :
           i # j => ~IsPrefix(ChainOf(i), ChainOf(j))) => AllChainsKept

\* three rows, one without a first key, two with unrelated chains of two keys
\* that share the first key: both chains are in the tree
C11_Witness ==
    /\ DistinctChainsRead
    /\ Len(call.multirisks) = 3
    /\ GenoKeyed = {1, 3}
    /\ ChainOf(1) = <<"G2", "G1">> /\ ChainOf(3) = <<"G2", "G2">>
    /\ DocBeta(call.multirisks[1]) # DocBeta(call.multirisks[3])
    /\ AllChainsKept

\* G1 -> G2 -> b1 followed by G1 -> b2: the object is constructed and the
\* chain of the first row is gone, G1 holds the leaf b2
C11_ChainReplaced ==
    /\ DistinctChainsRead
    /\ Len(call.multirisks) = 2
    /\ ChainOf(1) = <<"G1", "G2">> /\ ChainOf(2) = <<"G1">>
    /\ call.raised = "no"
    /\ ChainEnd(model.multi, ChainOf(1), 1) = [kind |-> "missing"]
    /\ ChainEnd(model.multi, ChainOf(2), 1) = Leaf(DocBeta(call.multirisks[2]))

\* G1 -> b1 followed by G1 -> G2 -> b2: nested_dict.get is called on the
\* float b1 and the construction ends with AttributeError
C11_PrefixRaises ==
    /\ DistinctChainsRead
    /\ Len(call.multirisks) = 2
    /\ ChainOf(1) = <<"G1">> /\ ChainOf(2) = <<"G1", "G2">>
    /\ call.raised = "AttributeError"
    /\ model = NoObj

\* the risk entries the catalog adapter documents for a table: its rows with
\* effect_allele as the allele and effect_weight as the beta, in order
EntriesOf(pgs) ==
    [i \in 1..Len(pgs) |-> [id |-> pgs[i].effect_allele, BETA |-> pgs[i].effect_weight]]

\* a PGSCatalog object has just been constructed without a risks argument
ConstructedFromTable ==
    /\ AfterInit
    /\ call.cls = "PGSCatalog"
    /\ call.given = <<>>
    /\ call.raised = "no"

\* C12 as stated: for any sequence of PGSCatalog constructions in one process,
\* a model constructed from a table without a risks argument has exactly the
\* renamed rows of its own table as risk entries, in order, and its default N
\* is the table's row count, whatever was constructed before.
C12_OwnInputOnly ==
    ConstructedFromTable =>
        /\ model.risks = EntriesOf(call.pgs)
        /\ (call.N = <<>>) => model.N = Len(call.pgs)

\* C12, what the code does: the table is read only while the list shared by
\* all calls without a risks argument is still empty; from then on every such
\* call builds its model from the rows that list already holds, and the
\* list is filled even by a call whose construction then fails.
C12_SharedDefault ==
    /\ ConstructedFromTable =>
          LET used == IF Len(call.before) = 0
                      THEN [i \in 1..Len(call.pgs) |-> Renamed(call.pgs[i])]
                      ELSE call.before
          IN  /\ model.risks = ReadRisk(used)
              /\ (call.N = <<>>) => model.N = Len(used)
              /\ defaults = used
              /\ (Len(call.before) = 0) => model.risks = EntriesOf(call.pgs)
    /\ (AfterInit /\ call.cls = "PGSCatalog" /\ call.given = <<>>
          /\ Len(call.before) = 0) =>
          defaults = [i \in 1..Len(call.pgs) |-> Renamed(call.pgs[i])]
    /\ (AfterInit /\ call.cls = "PGSCatalog" /\ call.given # <<>>) =>
          defaults = call.before

\* the second construction in a process, from a table of two lines, after a
\* first one from a table of one other line: the model holds the one row of
\* the earlier table and N = 1
C12_Witness ==
    /\ ConstructedFromTable
    /\ call.nth = 2
    /\ call.N = <<>>
    /\ Len(call.pgs) = 2
    /\ call.pgs[1].effect_allele = "A1" /\ call.pgs[2].effect_allele = "A1"
    /\ Len(call.before) = 1
    /\ call.before[1].ALLELE = "A2"
    /\ model.risks = << [id |-> "A2", BETA |-> -200] >>
    /\ model.N = 1

====
